---------------------------- MODULE Spec2Model ----------------------------
(***************************************************************************)
(* Model of dv/tb_fmul.cpp: the binary32 reference multiplier ref_model    *)
(* (DAZ / FTZ / constant qNaN) and the comparison harness of main.         *)
(*                                                                         *)
(* A 32-bit pattern is the pair <<hi, lo>> of its two 16-bit halves, and   *)
(* the 48-bit product is the pair <<hi, lo>> of its two 24-bit halves, so  *)
(* that every intermediate value keeps the width the C++ code gives it.    *)
(***************************************************************************)
EXTENDS Integers, Sequences, FiniteSets, TLC

VARIABLES
    a, b,          \* operands of the current ref_model / run_one call
    o,             \* RefOut of the last ref_model call
    rpc,           \* position of the stand-alone ref_model call: "call", "ret"
    CHECK_FLAGS,   \* global flag (--check-flags)
    PRINT_OK,      \* global flag (--print-ok)
    nrand,         \* number of random tests (--n)
    pc,            \* position of main: "directed", "rand", "rerun", "report", "done"
    d,             \* number of directed tests already applied
    i,             \* loop index of the random phase
    tests, fails,  \* counters of main
    t,             \* simulation time, one per tick_eval
    dut,           \* DUT pins: inputs a, b and the sampled outputs
    ok,            \* value returned by the last run_one
    printed,       \* what the last run_one printed: status block and NOTE line
    log,           \* tags of the run_one calls made so far, in order
    mismatches,    \* history: counted tests whose sampled outputs differ from the reference
    exit_status    \* return value of main, -1 while running

vars == <<a, b, o, rpc, CHECK_FLAGS, PRINT_OK, nrand, pc, d, i, tests, fails,
          t, dut, ok, printed, log, mismatches, exit_status>>

harnessVars == <<CHECK_FLAGS, PRINT_OK, nrand, pc, d, i, tests, fails,
                 t, dut, ok, printed, log, mismatches, exit_status>>

-----------------------------------------------------------------------------
(* Bounds of the model *)

\* fractions 0..MaxLowFrac and (0x7FFFFF - MaxLowFrac)..0x7FFFFF are operands
MaxLowFrac == 2

\* largest value of --n
MaxRand == 2

-----------------------------------------------------------------------------
(* 32-bit words as <<hi16, lo16>> *)

P7 == 2^7
P8 == 2^8
P12 == 2^12
P15 == 2^15
P16 == 2^16
P21 == 2^21
P22 == 2^22
P23 == 2^23
P24 == 2^24

\* (sign << 31) | (exp << 23) | frac, for sign < 2, exp < 256, frac < 2^23
Word(sign, exp, frac) == <<sign * P15 + exp * P7 + frac \div P16, frac % P16>>

sign_bit(x)   == x[1] \div P15
exp_field(x)  == (x[1] \div P7) % P8
frac_field(x) == (x[1] % P7) * P16 + x[2]

is_nan_bits_quiet_only(x) == exp_field(x) = 255 /\ frac_field(x) >= P22
is_nan_bits(x)  == exp_field(x) = 255 /\ frac_field(x) # 0
is_inf_bits(x)  == exp_field(x) = 255 /\ frac_field(x) = 0
is_zero_bits(x) == exp_field(x) = 0 /\ frac_field(x) = 0
is_sub_bits(x)  == exp_field(x) = 0 /\ frac_field(x) # 0

\* 0x7FC00000
qnan_const == <<32704, 0>>

pack_signed_zero(sign) == <<sign * P15, 0>>

\* (s << 31) | (0xFF << 23)
pack_inf(sign) == <<sign * P15 + 255 * P7, 0>>

-----------------------------------------------------------------------------
(* ref_model *)

\* const uint32_t s = (sign_bit(a) ^ sign_bit(b)) & 1u;
s_or(x, y) == IF sign_bit(x) = 1 \/ sign_bit(y) = 1 THEN 1 ELSE 0
s(x, y) == (sign_bit(x) + sign_bit(y)) % 2

a_eff_zero_no_daz(x) == is_zero_bits(x)
a_eff_zero(x) == is_zero_bits(x) \/ is_sub_bits(x)
b_eff_zero_no_daz(x) == is_zero_bits(x)
b_eff_zero(x) == is_zero_bits(x) \/ is_sub_bits(x)

\* (uint64_t)sigA * (uint64_t)sigB for 24-bit sigA, sigB, as <<prod[47:24], prod[23:0]>>
prod48(sigA, sigB) ==
    LET aH == sigA \div P12   aL == sigA % P12
        bH == sigB \div P12   bL == sigB % P12
        mid == aH * bL + aL * bH
        low == aL * bL + (mid % P12) * P12
    IN  <<aH * bH + mid \div P12 + low \div P24, low % P24>>

\* if (prod & (1ULL << 47)) { prod >>= 1; ... }
normalize(prod) ==
    IF prod[1] \div P23 = 1
    THEN <<prod[1] \div 2, (prod[1] % 2) * P23 + prod[2] \div 2>>
    ELSE prod

\* const uint32_t inc = G & (R | S | LSB);
inc(G, R, S, LSB) == IF G = 1 /\ (R = 1 \/ S = 1 \/ LSB = 1) THEN 1 ELSE 0

\* if (expR_unbiased > 127)
overflow_cond(e) == e > 127

\* if (expR_unbiased < -126)
underflow_cond_late(e) == e < -127
underflow_cond_early(e) == e <= -126
underflow_cond(e) == e < -126

\* the locals of the normal finite multiply path
ref_normal(x, y) ==
    LET sigA == P23 + frac_field(x)
        sigB == P23 + frac_field(y)
        expA_unbiased == exp_field(x) - 127
        expB_unbiased == exp_field(y) - 127
        prod0 == prod48(sigA, sigB)
        shifted == prod0[1] \div P23 = 1
        prod == normalize(prod0)
        expP_unbiased == expA_unbiased + expB_unbiased + (IF shifted THEN 1 ELSE 0)
        upper_bits == (prod[1] % P23) * 2 + prod[2] \div P23
        G == (prod[2] \div P22) % 2
        R == (prod[2] \div P21) % 2
        low21 == prod[2] % P21
        S == IF low21 # 0 THEN 1 ELSE 0
        LSB == upper_bits % 2
        sum == upper_bits + inc(G, R, S, LSB)
        carry == sum \div P24 = 1
    IN  [sigA |-> sigA, sigB |-> sigB, prod0 |-> prod0, prod |-> prod,
         expP_unbiased |-> expP_unbiased,
         upper_bits |-> upper_bits, G |-> G, R |-> R, S |-> S,
         carry |-> carry,
         upper_bits_rounded |-> IF carry THEN sum \div 2 ELSE sum,
         expR_unbiased |-> IF carry THEN expP_unbiased + 1 ELSE expP_unbiased,
         inexact |-> (G = 1 \/ R = 1 \/ S = 1)]

RefOut(y, invalid, overflow, underflow, inexact) ==
    [y |-> y, invalid |-> invalid, overflow |-> overflow,
     underflow |-> underflow, inexact |-> inexact]

ref_model(x, y) ==
    IF is_nan_bits(x) \/ is_nan_bits(y)
    THEN RefOut(qnan_const, FALSE, FALSE, FALSE, FALSE)
    ELSE IF (is_inf_bits(x) /\ b_eff_zero(y)) \/ (is_inf_bits(y) /\ a_eff_zero(x))
    THEN RefOut(qnan_const, TRUE, FALSE, FALSE, FALSE)
    ELSE IF is_inf_bits(x) \/ is_inf_bits(y)
    THEN RefOut(pack_inf(s(x, y)), FALSE, FALSE, FALSE, FALSE)
    ELSE IF a_eff_zero(x) \/ b_eff_zero(y)
    THEN RefOut(pack_signed_zero(s(x, y)), FALSE, FALSE, FALSE, FALSE)
    ELSE LET n == ref_normal(x, y) IN
         IF overflow_cond(n.expR_unbiased)
         THEN RefOut(pack_inf(s(x, y)), FALSE, TRUE, FALSE, TRUE)
         ELSE IF underflow_cond(n.expR_unbiased)
         THEN RefOut(pack_signed_zero(s(x, y)), FALSE, FALSE, TRUE, TRUE)
         ELSE RefOut(Word(s(x, y), (n.expR_unbiased + 127) % P8,
                          n.upper_bits_rounded % P23),
                     FALSE, FALSE, FALSE, n.inexact)

-----------------------------------------------------------------------------
(* Operands of the stand-alone ref_model call *)

\* 0x200000, 0x400000, 0x400001, 0x555555, 0x042108, 0x780000
SpecialFracs == {2097152, 4194304, 4194305, 5592405, 270600, 7864320}

Fracs == (0 .. MaxLowFrac) \cup ((P23 - 1 - MaxLowFrac) .. (P23 - 1)) \cup SpecialFracs

Exps == {0, 1, 126, 127, 128, 254, 255}

Inputs == {Word(sg, e, f) : sg \in {0, 1}, e \in Exps, f \in Fracs}

ZeroOut == RefOut(<<0, 0>>, FALSE, FALSE, FALSE, FALSE)

NoPrint == [status |-> "none", note |-> "none"]

IdleDut == [a |-> <<0, 0>>, b |-> <<0, 0>>, y |-> <<0, 0>>, invalid |-> FALSE,
            overflow |-> FALSE, underflow |-> FALSE, inexact |-> FALSE]

RefInit ==
    /\ a \in Inputs
    /\ b \in Inputs
    /\ o = ZeroOut
    /\ rpc = "call"
    /\ CHECK_FLAGS = FALSE
    /\ PRINT_OK = FALSE
    /\ nrand = 0
    /\ pc = "idle"
    /\ d = 0
    /\ i = 0
    /\ tests = 0
    /\ fails = 0
    /\ t = 0
    /\ dut = IdleDut
    /\ ok = TRUE
    /\ printed = NoPrint
    /\ log = <<>>
    /\ mismatches = 0
    /\ exit_status = -1

\* RefOut r = ref_model(a, b);
RefCall ==
    /\ rpc = "call"
    /\ o' = ref_model(a, b)
    /\ rpc' = "ret"
    /\ UNCHANGED <<a, b>>
    /\ UNCHANGED harnessVars

RefNext == RefCall

SpecRef == RefInit /\ [][RefNext]_vars

-----------------------------------------------------------------------------
(* The harness: run_one and main *)

\* The DUT is an external collaborator: after two ticks its pins show either
\* the reference value or another pattern, and either the reference flags or
\* flags with invalid or inexact inverted.
FlipLsb(w) == <<w[1], IF w[2] % 2 = 0 THEN w[2] + 1 ELSE w[2] - 1>>

DutSamples(r) ==
    {[y |-> yy, invalid |-> (r.invalid # (dev = "invalid")), overflow |-> r.overflow,
      underflow |-> r.underflow, inexact |-> (r.inexact # (dev = "inexact"))] :
        yy \in {r.y, FlipLsb(r.y)}, dev \in {"same", "invalid", "inexact"}}

\* bool ok_y = (y_dut == r.y);
ok_y(smp, r) == smp.y = r.y

\* bool ok_flags = true; if (CHECK_FLAGS) { ok_flags = ...; }
ok_flags_always(smp, r, cf) ==
    /\ smp.invalid = r.invalid
    /\ smp.overflow = r.overflow
    /\ smp.underflow = r.underflow
    /\ smp.inexact = r.inexact
ok_flags(smp, r, cf) ==
    IF cf
    THEN /\ smp.invalid = r.invalid
         /\ smp.overflow = r.overflow
         /\ smp.underflow = r.underflow
         /\ smp.inexact = r.inexact
    ELSE TRUE

\* what run_one prints: the PASS / FAIL block and the NOTE line after it
print_case(is_ok, oky, verbose_on_fail, cf, pok) ==
    IF (~is_ok /\ verbose_on_fail) \/ (is_ok /\ pok)
    THEN [status |-> IF is_ok THEN "PASS" ELSE "FAIL",
          note |-> IF ~is_ok /\ ~cf /\ ~oky THEN "y mismatch"
                   ELSE IF ~is_ok /\ ~cf /\ oky THEN "flags ignored"
                   ELSE "none"]
    ELSE [status |-> "none", note |-> "none"]

\* the value run_one returns for the sample smp of the DUT pins
run_one_ok(x, y, smp, cf) ==
    ok_y(smp, ref_model(x, y)) /\ ok_flags(smp, ref_model(x, y), cf)

\* run_one(dut, tfp, t, x, y, tag, verbose_on_fail), with the DUT answering smp
run_one(x, y, tag, verbose_on_fail, smp) ==
    /\ a' = x
    /\ b' = y
    /\ dut' = [a |-> x, b |-> y, y |-> smp.y, invalid |-> smp.invalid,
               overflow |-> smp.overflow, underflow |-> smp.underflow,
               inexact |-> smp.inexact]
    /\ o' = ref_model(x, y)
    /\ ok' = run_one_ok(x, y, smp, CHECK_FLAGS)
    /\ printed' = print_case(run_one_ok(x, y, smp, CHECK_FLAGS),
                             ok_y(smp, ref_model(x, y)),
                             verbose_on_fail, CHECK_FLAGS, PRINT_OK)
    /\ t' = t + 4
    /\ log' = Append(log, tag)

\* a counted test whose sampled y differs from the reference, or, with flag
\* checking enabled, one of whose sampled flags differs
Mismatch(smp, r, cf) ==
    \/ smp.y # r.y
    \/ /\ cf
       /\ \/ smp.invalid # r.invalid
          \/ smp.overflow # r.overflow
          \/ smp.underflow # r.underflow
          \/ smp.inexact # r.inexact

\* the directed tests of main, in program order
DirectedTests ==
    << [a |-> <<32640, 0>>, b |-> <<0, 0>>,     tag |-> "Inf*0"],
       [a |-> <<32704, 1>>, b |-> <<16256, 0>>, tag |-> "NaN*1"],
       [a |-> <<0, 1>>,     b |-> <<16256, 0>>, tag |-> "subnormal input DAZ"],
       [a |-> <<128, 0>>,   b |-> <<16128, 0>>, tag |-> "min_norm*0.5 => FTZ"],
       [a |-> <<32639, 65535>>, b |-> <<16384, 0>>, tag |-> "max_finite*2 => overflow"] >>

\* rand_bits: r is the uniform 32-bit draw, sel the category draw
rand_bits(r, sel) ==
    LET masked == <<(r[1] \div P15) * P15 + (r[1] % P7), r[2]>>  \* r & 0x807FFFFF
    IN  CASE sel = 0 -> <<0, 0>>
          [] sel = 1 -> <<32768, 0>>
          [] sel = 2 -> <<32640, 0>>
          [] sel = 3 -> <<65408, 0>>
          [] sel = 4 -> <<32704, 1>>
          [] sel = 5 -> masked
          [] sel = 6 -> <<masked[1] + 1 * P7, masked[2]>>
          [] sel = 7 -> <<masked[1] + 254 * P7, masked[2]>>
          [] OTHER -> r

\* the uniform draws of the model: 0xBF800001
RandDraws == {<<49024, 1>>}

\* the category draws of the model: +Inf, exp=0, exp=254, and the default
RandSels == {2, 5, 7, 11}

RandWords == {rand_bits(r, sel) : r \in RandDraws, sel \in RandSels}

Init ==
    /\ CHECK_FLAGS \in BOOLEAN
    /\ PRINT_OK \in BOOLEAN
    /\ nrand \in 0 .. MaxRand
    /\ pc = "directed"
    /\ d = 0
    /\ i = 0
    /\ tests = 0
    /\ fails = 0
    /\ t = 0
    /\ dut = IdleDut
    /\ ok = TRUE
    /\ printed = NoPrint
    /\ log = <<>>
    /\ mismatches = 0
    /\ exit_status = -1
    /\ a = <<0, 0>>
    /\ b = <<0, 0>>
    /\ o = ZeroOut
    /\ rpc = "idle"

\* check(a, b, tag, true) for the next directed test
Directed ==
    /\ pc = "directed"
    /\ d < Len(DirectedTests)
    /\ LET v == DirectedTests[d + 1] IN
       \E smp \in DutSamples(ref_model(v.a, v.b)) :
          /\ tests' = tests + 1
          /\ run_one(v.a, v.b, v.tag, TRUE, smp)
          /\ fails' = IF run_one_ok(v.a, v.b, smp, CHECK_FLAGS) THEN fails ELSE fails + 1
          /\ mismatches' = IF Mismatch(smp, ref_model(v.a, v.b), CHECK_FLAGS)
                           THEN mismatches + 1 ELSE mismatches
    /\ d' = d + 1
    /\ pc' = IF d + 1 = Len(DirectedTests) THEN "rand" ELSE "directed"
    /\ UNCHANGED <<rpc, CHECK_FLAGS, PRINT_OK, nrand, i, exit_status>>

\* one iteration of the random loop up to its first run_one
RandIterWith(stop_on_fail) ==
    /\ pc = "rand"
    /\ i < nrand
    /\ \E x \in RandWords, y \in RandWords :
       \E smp \in DutSamples(ref_model(x, y)) :
          /\ tests' = tests + 1
          /\ run_one(x, y, "rand", FALSE, smp)
          /\ IF run_one_ok(x, y, smp, CHECK_FLAGS)
             THEN fails' = fails /\ i' = i + 1 /\ pc' = "rand"
             ELSE /\ fails' = fails + 1
                  /\ IF stop_on_fail
                     THEN i' = i /\ pc' = "rerun"
                     ELSE i' = i + 1 /\ pc' = "rand"
          /\ mismatches' = IF Mismatch(smp, ref_model(x, y), CHECK_FLAGS)
                           THEN mismatches + 1 ELSE mismatches
    /\ UNCHANGED <<rpc, CHECK_FLAGS, PRINT_OK, nrand, d, exit_status>>

RandIter_no_break == RandIterWith(FALSE)
RandIter == RandIterWith(TRUE)

\* the verbose re-run of the failing stimulus, then break
RandRerun ==
    /\ pc = "rerun"
    /\ \E smp \in DutSamples(ref_model(a, b)) :
          run_one(a, b, "rand (verbose)", TRUE, smp)
    /\ pc' = "report"
    /\ UNCHANGED <<rpc, CHECK_FLAGS, PRINT_OK, nrand, d, i, tests, fails,
                   mismatches, exit_status>>

\* the loop condition i < nrand fails
LoopExit ==
    /\ pc = "rand"
    /\ i >= nrand
    /\ pc' = "report"
    /\ UNCHANGED <<a, b, o, rpc, CHECK_FLAGS, PRINT_OK, nrand, d, i, tests, fails,
                   t, dut, ok, printed, log, mismatches, exit_status>>

\* return (fails == 0) ? 0 : 1;
exit_code(f) == IF f = 0 THEN 0 ELSE 1

Report ==
    /\ pc = "report"
    /\ exit_status' = exit_code(fails)
    /\ pc' = "done"
    /\ UNCHANGED <<a, b, o, rpc, CHECK_FLAGS, PRINT_OK, nrand, d, i, tests, fails,
                   t, dut, ok, printed, log, mismatches>>

Next == Directed \/ RandIter \/ RandRerun \/ LoopExit \/ Report

Spec == Init /\ [][Next]_vars

-----------------------------------------------------------------------------
(* Properties of ref_model, stated on the bit patterns themselves *)

QNaN == <<32704, 0>>

SignOf(x) == x[1] \div 32768
ExpOf(x)  == (x[1] % 32768) \div 128
FracOf(x) == (x[1] % 128) * 65536 + x[2]

IsNaN(x)       == ExpOf(x) = 255 /\ FracOf(x) # 0
IsInfinity(x)  == ExpOf(x) = 255 /\ FracOf(x) = 0
IsZero(x)      == ExpOf(x) = 0 /\ FracOf(x) = 0
IsSubnormal(x) == ExpOf(x) = 0 /\ FracOf(x) # 0
IsNormal(x)    == ExpOf(x) \in 1 .. 254

XorSign(x, y) == IF SignOf(x) = SignOf(y) THEN 0 ELSE 1

SignedZero(sg) == <<sg * 32768, 0>>
SignedInf(sg)  == <<sg * 32768 + 32640, 0>>

NoFlags(r) == ~r.invalid /\ ~r.overflow /\ ~r.underflow /\ ~r.inexact

Returned == rpc = "ret"

\* C1: ref_model is commutative: ref_model(a,b) and ref_model(b,a) return the
\* same y and the same invalid, overflow, underflow and inexact flags.
C1_Commutative == Returned => o = ref_model(b, a)

\* two different Normal operands have been multiplied and the product rounded
C1_Witness ==
    /\ Returned
    /\ IsNormal(a) /\ IsNormal(b) /\ a # b /\ o.inexact /\ ~o.overflow /\ ~o.underflow

\* |y| as a multiple of 2^(eA+eB-46) minus the exact product sigA*sigB, where
\* y = M * 2^(ER-23); "far" when the two differ by 2^25 or more
Distance(x, y, r) ==
    LET M  == 8388608 + FracOf(r)
        k  == (ExpOf(r) - 127) - ((ExpOf(x) - 127) + (ExpOf(y) - 127))
        P  == prod48(8388608 + FracOf(x), 8388608 + FracOf(y))
        Yhi == IF k = 0 THEN M \div 2 ELSE IF k = 1 THEN M ELSE 2 * M
        Ylo == IF k = 0 THEN (M % 2) * 8388608 ELSE 0
        Dhi == Yhi - P[1]
    IN  IF k \notin 0 .. 2 \/ Dhi \notin -1 .. 1
        THEN [far |-> TRUE, k |-> k, D |-> 0, M |-> M]
        ELSE [far |-> FALSE, k |-> k, D |-> Dhi * 16777216 + (Ylo - P[2]), M |-> M]

Abs(n) == IF n < 0 THEN -n ELSE n

\* r is the binary32 value nearest to the exact product of the Normal operands
\* x and y, the even neighbour on a tie
NearestEven(x, y, r) ==
    LET dist == Distance(x, y, r)
        ulp  == 2^(23 + dist.k)
    IN  /\ IsNormal(r)
        /\ SignOf(r) = XorSign(x, y)
        /\ ~dist.far
        /\ 2 * Abs(dist.D) <= ulp
        /\ (2 * Abs(dist.D) = ulp => dist.M % 2 = 0)
        /\ (dist.M = 8388608 /\ dist.D > 0 => 4 * dist.D <= ulp)

\* C2: for Normal operands whose rounded exponent is in [-126, 127], y encodes
\* the binary32 value nearest to the exact product, with sign sign(a) XOR
\* sign(b), and the even neighbour when the product is exactly halfway.
C2_CorrectlyRounded ==
    Returned /\ IsNormal(a) /\ IsNormal(b) /\ ~o.overflow /\ ~o.underflow
        => NearestEven(a, b, o.y)

\* C3: NaN dominance: when a or b is a NaN, y is exactly 0x7FC00000 and all four
\* flags are false, whatever the other operand is.
C3_NaNDominance ==
    Returned /\ (IsNaN(a) \/ IsNaN(b))
        => o.y = QNaN /\ NoFlags(o)

\* a NaN has been multiplied by an Infinity
C3_Witness ==
    /\ Returned
    /\ IsNaN(a) /\ FracOf(a) < 4194304 /\ IsInfinity(b)
    /\ o.y = QNaN

\* C4: denormals-are-zero: a subnormal a gives the same y and flags as the zero
\* with the sign of a; subnormal x Normal is a signed zero without underflow
\* or inexact, subnormal x Infinity is the qNaN with invalid.
C4_DenormalsAreZero ==
    Returned /\ IsSubnormal(a)
        => /\ o = ref_model(SignedZero(SignOf(a)), b)
           /\ (IsNormal(b) => o.y = SignedZero(XorSign(a, b)) /\ NoFlags(o))
           /\ (IsInfinity(b) => o.y = QNaN /\ o.invalid)

\* a subnormal has been multiplied by a Normal operand large enough for the
\* product of the two values to be a normal number
C4_Witness ==
    /\ Returned
    /\ IsSubnormal(a) /\ FracOf(a) >= 4194304 /\ IsNormal(b) /\ ExpOf(b) = 254
    /\ o.y = SignedZero(XorSign(a, b))

\* C5: y is never Subnormal: on the normal-pack path the biased exponent
\* expR_unbiased + 127 is in [1, 254] and the 8-bit mask leaves it unchanged;
\* every other path returns a signed zero, a signed Infinity or the qNaN.
C5_NeverSubnormal ==
    Returned =>
        /\ ~IsSubnormal(o.y)
        /\ IF IsNormal(a) /\ IsNormal(b) /\ ~o.overflow /\ ~o.underflow
           THEN /\ ref_normal(a, b).expR_unbiased + 127 \in 1 .. 254
                /\ ExpOf(o.y) = ref_normal(a, b).expR_unbiased + 127
           ELSE o.y \in {SignedZero(0), SignedZero(1), SignedInf(0), SignedInf(1), QNaN}

\* a product with the minimum normal exponent has been packed
C5_Witness ==
    /\ Returned
    /\ IsNormal(a) /\ IsNormal(b) /\ ~o.overflow /\ ~o.underflow
    /\ ExpOf(o.y) = 1 /\ FracOf(o.y) # 0

\* C6: sign rule: whenever y is not 0x7FC00000, bit 31 of y is
\* sign(a) XOR sign(b).
C6_SignRule ==
    Returned /\ o.y # QNaN => SignOf(o.y) = XorSign(a, b)

\* two negative Normal operands have been multiplied and packed
C6_Witness ==
    /\ Returned
    /\ SignOf(a) = 1 /\ SignOf(b) = 1 /\ IsNormal(a) /\ IsNormal(b)
    /\ IsNormal(o.y) /\ SignOf(o.y) = 0

\* C10: flush-to-zero: underflow is set iff both operands are Normal and the
\* exponent after normalization and rounding is below -126; then y is the
\* signed zero, inexact is set, overflow and invalid are not. A product of
\* exponent -127 that the rounding increment carries to -126 is packed as a
\* Normal result without underflow.
C10_FlushToZero ==
    Returned =>
        /\ o.underflow <=> (IsNormal(a) /\ IsNormal(b)
                            /\ ref_normal(a, b).expR_unbiased < -126)
        /\ (o.underflow => /\ o.y = SignedZero(XorSign(a, b))
                           /\ o.inexact /\ ~o.overflow /\ ~o.invalid)
        /\ (IsNormal(a) /\ IsNormal(b)
            /\ ref_normal(a, b).expP_unbiased = -127 /\ ref_normal(a, b).carry
                => ~o.underflow /\ o.y = <<XorSign(a, b) * 32768 + 128, 0>>)

\* a product of exponent -127 has been carried up to the minimum normal
C10_Witness ==
    /\ Returned
    /\ IsNormal(a) /\ IsNormal(b)
    /\ ref_normal(a, b).expP_unbiased = -127 /\ ref_normal(a, b).carry
    /\ ~o.underflow

-----------------------------------------------------------------------------
(* Properties of the harness *)

FlagsDiffer(pins, r) ==
    \/ pins.invalid # r.invalid
    \/ pins.overflow # r.overflow
    \/ pins.underflow # r.underflow
    \/ pins.inexact # r.inexact

\* C7: with flag checking disabled, a case whose y matches while a flag
\* differs is not a failure, and run_one still prints the note saying that
\* the value matched and the flags were ignored.
C7_FlagNote ==
    log # <<>> /\ ~CHECK_FLAGS /\ dut.y = o.y /\ FlagsDiffer(dut, o)
        => ok /\ printed.note = "flags ignored"

C8_Inv ==
    /\ \A k \in 1 .. Len(log) :
          IF k <= 5
          THEN log[k] = DirectedTests[k].tag
          ELSE log[k] \in {"rand", "rand (verbose)"}
    /\ (Len(log) \in 1 .. 5 =>
          dut.a = DirectedTests[Len(log)].a /\ dut.b = DirectedTests[Len(log)].b)
    /\ (pc # "directed" => Len(log) >= 5)
    /\ \A k \in 1 .. Len(log) :
          log[k] = "rand (verbose)" =>
              k = Len(log) /\ k > 6 /\ log[k - 1] = "rand" /\ pc \in {"report", "done"}
    /\ (pc = "rand" => fails <= 5)
    /\ fails <= 6

C8_Step ==
    /\ (pc = "rand" /\ fails' # fails => pc' = "rerun" /\ fails' = fails + 1)
    /\ (pc = "rerun" =>
          /\ pc' = "report"
          /\ dut'.a = dut.a /\ dut'.b = dut.b
          /\ log' = Append(log, "rand (verbose)")
          /\ tests' = tests /\ fails' = fails
          /\ (~ok' => printed'.status = "FAIL"))
    /\ (pc \in {"report", "done"} =>
          log' = log /\ dut' = dut /\ tests' = tests /\ fails' = fails)

\* C8: the five directed tests are applied first and in order whatever their
\* outcomes; the first failing random case is run exactly once more, verbose,
\* with the same stimulus, after which no stimulus is applied; at most one
\* random failure is counted and the re-run changes neither tests nor fails.
C8_EarlyExit == []C8_Inv /\ [][C8_Step]_vars

\* a random case has failed after a passing one and has been run again
C8_Witness ==
    /\ pc = "report"
    /\ Len(log) = 8
    /\ log[8] = "rand (verbose)"
    /\ fails = 6
    /\ tests = 7

\* C9: the exit status is 0 iff no counted test failed, a counted test failing
\* iff the sampled y differs from the reference y or, with flag checking
\* enabled only, a flag differs; otherwise it is 1.
C9_ExitStatus ==
    pc = "done" =>
        /\ exit_status \in {0, 1}
        /\ (exit_status = 0 <=> mismatches = 0)

\* a run has ended whose only imperfect cases are flag differences that the
\* disabled flag check ignores
C9_Witness ==
    /\ pc = "done"
    /\ ~CHECK_FLAGS
    /\ exit_status = 0
    /\ tests = 7
    /\ dut.y = o.y /\ FlagsDiffer(dut, o)

=============================================================================
